---- MODULE Spec2Model ----
(***************************************************************************)
(* One-dimensional binary cellular automaton (src/automaton/mod.rs).       *)
(*                                                                         *)
(* The lattice is a Vec<u8> `fields` of 128 cells stored most significant  *)
(* first: vector position p (0-based) holds the cell of index 127 - p.     *)
(* TLA+ sequences are 1-based, so the cell of index i is fields[128 - i].  *)
(***************************************************************************)
EXTENDS Integers, Sequences, FiniteSets, TLC

VARIABLES fields, rule, periodic_boundary, pc, gen, initial, prev,
          listed, listed_at

vars == <<fields, rule, periodic_boundary, pc, gen, initial, prev,
          listed, listed_at>>

(***************************************************************************)
(* Bounds of the exploration.                                              *)
(***************************************************************************)
\* the initial packed values have any EdgeBits bits at each end of the lattice
EdgeBits == 1
\* number of update() calls explored after construction
MaxSteps == 3
\* number of to_list() calls explored after construction
MaxCalls == 2
\* largest rotation of the lattice compared across an update()
MaxShift == 2

(***************************************************************************)
(* Program constants.                                                      *)
(***************************************************************************)
\* lattice width: vec![0; 128], for i in 0..128
Width == 128
\* a u128 is held as 8 little-endian limbs of 16 bits (no wide integers here)
LimbBits == 16
NumLimbs == 8

\* a Rust panic (index out of bounds, shift overflow) inside an expression
PANIC == 0 - 1

(***************************************************************************)
(* u8 / u128 arithmetic.                                                   *)
(***************************************************************************)
\* bit n of a natural number: (x >> n) & 1
BitOf(x, n) == (x \div (2 ^ n)) % 2

\* u8 << n for n < 8: the bits shifted out are dropped
Shl8(x, n) == (x * (2 ^ n)) % 256

\* a | b, bit by bit from the least significant one
RECURSIVE BitOr8(_, _)
BitOr8(a, b) ==
    IF a = 0 THEN b
    ELSE IF b = 0 THEN a
    ELSE (IF a % 2 = 1 \/ b % 2 = 1 THEN 1 ELSE 0)
         + 2 * BitOr8(a \div 2, b \div 2)

\* vector indexing v[k] with the bounds check of Vec (k is 0-based)
Index(v, k) == IF k >= 0 /\ k < Len(v) THEN v[k + 1] ELSE PANIC

\* (number >> n) as u8 & 1, number a u128 held in limbs
find_nth_bit(number, n) ==
    BitOf(number[(n \div LimbBits) + 1], n % LimbBits)

\* tests::to_vec: (0..128).map(|i| find_nth_bit(number, 127 - i)).collect()
to_vec(number) == [p \in 1..Width |-> find_nth_bit(number, 127 - (p - 1))]

(***************************************************************************)
(* apply_rule and detect_pattern.                                          *)
(***************************************************************************)
\* mutation: the two arguments of the shift exchanged
apply_rule_swapped(pattern, r, oc) ==
    IF r >= 8
    THEN IF oc THEN PANIC ELSE BitOf(pattern, r % 8)
    ELSE BitOf(pattern, r)

\* mutation: the mask & 1 forgotten
apply_rule_unmasked(pattern, r, oc) ==
    IF pattern >= 8
    THEN IF oc THEN PANIC ELSE r \div (2 ^ (pattern % 8))
    ELSE r \div (2 ^ pattern)

\* (rule >> pattern) & 1 on u8.  A shift by 8 or more panics when overflow
\* checks are compiled in and is taken modulo 8 otherwise.
apply_rule(pattern, r, oc) ==
    IF pattern >= 8
    THEN IF oc THEN PANIC ELSE BitOf(r, pattern % 8)
    ELSE BitOf(r, pattern)

\* (left << 2) | (center << 1) | right, unless a component lookup panicked
Combine(left, center, right) ==
    IF left = PANIC \/ center = PANIC \/ right = PANIC
    THEN PANIC
    ELSE BitOr8(BitOr8(Shl8(left, 2), Shl8(center, 1)), right)

\* mutation: left and right neighbours exchanged
detect_pattern_mirrored(f, pb, center_index) ==
    LET left   == IF center_index = 0
                  THEN IF pb THEN Index(f, 0) ELSE 0
                  ELSE Index(f, 127 - center_index + 1)
        center == Index(f, 127 - center_index)
        right  == IF center_index = 127
                  THEN IF pb THEN Index(f, 127) ELSE 0
                  ELSE Index(f, 127 - center_index - 1)
    IN  Combine(left, center, right)

\* mutation: the periodic flag is ignored, the edges always read 0
detect_pattern_nowrap(f, pb, center_index) ==
    LET right  == IF center_index = 0
                  THEN 0
                  ELSE Index(f, 127 - center_index + 1)
        center == Index(f, 127 - center_index)
        left   == IF center_index = 127
                  THEN 0
                  ELSE Index(f, 127 - center_index - 1)
    IN  Combine(left, center, right)

\* mutation: the periodic flag is ignored, the edges always wrap
detect_pattern_allwrap(f, pb, center_index) ==
    LET right  == IF center_index = 0
                  THEN Index(f, 0)
                  ELSE Index(f, 127 - center_index + 1)
        center == Index(f, 127 - center_index)
        left   == IF center_index = 127
                  THEN Index(f, 127)
                  ELSE Index(f, 127 - center_index - 1)
    IN  Combine(left, center, right)

\* mutation: the edge test of the right neighbour is off by one
\* (center_index <= 1 for center_index == 0)
detect_pattern_wide_edge(f, pb, center_index) ==
    LET right  == IF center_index <= 1
                  THEN IF pb THEN Index(f, 0) ELSE 0
                  ELSE Index(f, 127 - center_index + 1)
        center == Index(f, 127 - center_index)
        left   == IF center_index = 127
                  THEN IF pb THEN Index(f, 127) ELSE 0
                  ELSE Index(f, 127 - center_index - 1)
    IN  Combine(left, center, right)

detect_pattern(f, pb, center_index) ==
    LET right  == IF center_index = 0
                  THEN IF pb THEN Index(f, 0) ELSE 0
                  ELSE Index(f, 127 - center_index + 1)
        center == Index(f, 127 - center_index)
        left   == IF center_index = 127
                  THEN IF pb THEN Index(f, 127) ELSE 0
                  ELSE Index(f, 127 - center_index - 1)
    IN  Combine(left, center, right)

(***************************************************************************)
(* update: the loop over the 128 indices.                                  *)
(***************************************************************************)
\* mutation: update in place.  The bit of index i is computed from the
\* lattice in which the cells of the indices below i are already overwritten:
\* its right neighbour is the new bit of index i - 1 (written).
in_place_bit(self_fields, r, pb, oc, i, written, first) ==
    LET right  == IF i = 0
                  THEN IF pb THEN Index(self_fields, 0) ELSE 0
                  ELSE written
        center == Index(self_fields, 127 - i)
        left   == IF i = 127
                  THEN IF pb THEN first ELSE 0
                  ELSE Index(self_fields, 127 - i - 1)
        pattern == Combine(left, center, right)
    IN  IF pattern = PANIC THEN PANIC ELSE apply_rule(pattern, r, oc)

\* the bit written last by the in-place iterations lo..hi (hi < 127), the
\* bit written before them being carry; the range is halved to keep the
\* evaluation shallow
RECURSIVE in_place_scan(_, _, _, _, _, _, _)
in_place_scan(self_fields, r, pb, oc, lo, hi, carry) ==
    IF lo = hi
    THEN in_place_bit(self_fields, r, pb, oc, lo, carry, 0)
    ELSE LET mid   == (lo + hi) \div 2
             lower == in_place_scan(self_fields, r, pb, oc, lo, mid, carry)
         IN  IF lower = PANIC
             THEN PANIC
             ELSE in_place_scan(self_fields, r, pb, oc, mid + 1, hi, lower)

new_bit_in_place(self_fields, r, pb, oc, i) ==
    IF i = 0
    THEN in_place_bit(self_fields, r, pb, oc, 0, 0, 0)
    ELSE in_place_bit(self_fields, r, pb, oc, i,
                      in_place_scan(self_fields, r, pb, oc, 0, i - 1, 0),
                      in_place_bit(self_fields, r, pb, oc, 0, 0, 0))

\* the body of the loop: the bit that iteration i writes, from self.fields
new_bit(self_fields, r, pb, oc, i) ==
    LET pattern == detect_pattern(self_fields, pb, i)
    IN  IF pattern = PANIC THEN PANIC ELSE apply_rule(pattern, r, oc)

\* new_fields after the loop: iteration i has written position 127 - i
\* (sequence position p is vector position p - 1, so i = 128 - p)
new_fields(self_fields, r, pb, oc) ==
    [p \in 1..Width |-> new_bit(self_fields, r, pb, oc, Width - p)]

\* some iteration panicked: update() unwinds and self.fields is not replaced
Panicked(buffer) == \E p \in 1..Width : buffer[p] = PANIC

(***************************************************************************)
(* Arguments given to Automaton::new.                                      *)
(***************************************************************************)
\* a u128 below 2^16: only the least significant limb is not 0
Small(n) == [k \in 1..NumLimbs |-> IF k = 1 THEN n ELSE 0]

\* u128::MAX
U128Max == [k \in 1..NumLimbs |-> (2 ^ LimbBits) - 1]

\* packed values: any EdgeBits low bits with any EdgeBits high bits, and the
\* values the tests start from (0b101, 0b100, 0b1101, u128::MAX)
PackedInputs ==
    { [k \in 1..NumLimbs |->
          IF k = 1 THEN lo
          ELSE IF k = NumLimbs THEN hi * (2 ^ (LimbBits - EdgeBits))
          ELSE 0] : lo \in 0..((2 ^ EdgeBits) - 1), hi \in 0..((2 ^ EdgeBits) - 1) }
    \cup { Small(5), Small(4), Small(13), U128Max }

\* vectors Vec<u8> allows that are not lattices: too short, too long, or with
\* an element that is not a bit
MalformedInputs ==
    LET zero == [p \in 1..Width |-> 0]
    IN  { <<>>,
          SubSeq(zero, 1, Width - 1),
          Append([zero EXCEPT ![Width] = 1], 1),
          [zero EXCEPT ![Width] = 2],
          [zero EXCEPT ![Width - 5] = 2],
          [zero EXCEPT ![Width - 5] = 255] }

InitialInputs == { to_vec(v) : v \in PackedInputs } \cup MalformedInputs

(***************************************************************************)
(* The state machine.                                                      *)
(***************************************************************************)
\* before construction
Init ==
    /\ pc = "unbuilt"
    /\ fields = <<>>
    /\ rule = 0
    /\ periodic_boundary = FALSE
    /\ gen = 0
    /\ initial = <<>>
    /\ prev = <<>>
    /\ listed = <<>>
    /\ listed_at = <<>>

\* Automaton::new(rule, initial, periodic_boundary): stores its arguments
New(r, init, pb) ==
    /\ pc = "unbuilt"
    /\ fields' = init
    /\ rule' = r
    /\ periodic_boundary' = pb
    /\ initial' = init
    /\ pc' = "ready"
    /\ UNCHANGED <<gen, prev, listed, listed_at>>

\* a shift by 8 or more in apply_rule needs a pattern of 8 or more, hence a
\* cell that is not a bit
ShiftCanOverflow(f) == \E p \in 1..Len(f) : f[p] > 1

\* the builds to tell apart: with overflow checks (TRUE) and without (FALSE);
\* they behave alike unless a shift can overflow
Builds(f) == IF ShiftCanOverflow(f) THEN BOOLEAN ELSE {TRUE}

\* mutation: the new bit of the last iteration is also stored into self.rule
Update_rule_clobbered(oc) ==
    /\ pc = "ready"
    /\ gen < MaxSteps
    /\ \E buffer \in {new_fields(fields, rule, periodic_boundary, oc)} :
          IF Panicked(buffer)
          THEN /\ pc' = "panicked"
               /\ UNCHANGED <<fields, gen, prev, rule>>
          ELSE /\ fields' = buffer
               /\ prev' = fields
               /\ gen' = gen + 1
               /\ pc' = pc
               /\ rule' = buffer[1]
    /\ UNCHANGED <<periodic_boundary, initial, listed, listed_at>>

\* Automaton::update(&mut self) in a build with (oc) or without overflow
\* checks.  update() leaves only bits in the lattice, so the build can matter
\* at the first call only, and choosing it at each call reaches the same
\* lattices as a build fixed for the run.
Update(oc) ==
    /\ pc = "ready"
    /\ gen < MaxSteps
    /\ \E buffer \in {new_fields(fields, rule, periodic_boundary, oc)} :
          IF Panicked(buffer)
          THEN /\ pc' = "panicked"
               /\ UNCHANGED <<fields, gen, prev>>
          ELSE /\ fields' = buffer
               /\ prev' = fields
               /\ gen' = gen + 1
               /\ pc' = pc
    /\ UNCHANGED <<rule, periodic_boundary, initial, listed, listed_at>>

\* mutation: the vector is moved out of the automaton instead of cloned
to_list_taken(self_fields) == [fields |-> <<>>, ret |-> self_fields]

\* mutation: the clone is returned least significant cell first
to_list_reversed(self_fields) ==
    [fields |-> self_fields,
     ret    |-> [p \in 1..Len(self_fields) |->
                    self_fields[Len(self_fields) + 1 - p]]]

\* Automaton::to_list(&self): self.fields.clone(); the lattice the automaton
\* holds after the call (fields) and the vector returned (ret)
to_list(self_fields) == [fields |-> self_fields, ret |-> self_fields]

\* a call of to_list() by the holder of the automaton; listed is the vector
\* returned by the last call and listed_at the generations the calls were
\* made in, oldest first
ToList ==
    /\ pc = "ready"
    /\ Len(listed_at) < MaxCalls
    /\ \E res \in {to_list(fields)} :
          /\ fields' = res.fields
          /\ listed' = res.ret
    /\ listed_at' = Append(listed_at, gen)
    /\ UNCHANGED <<rule, periodic_boundary, pc, gen, initial, prev>>

\* (the arguments of new() are enumerated before construction only)
Next ==
    \/ /\ pc = "unbuilt"
       /\ \E r \in 0..255, init \in InitialInputs, pb \in BOOLEAN : New(r, init, pb)
    \/ \E oc \in Builds(fields) : Update(oc)

Spec == Init /\ [][Next]_vars

\* the rules the tests run (test_empty_automaton_rule_0 / _1,
\* test_periodic_boundary, test_rule_30, test_rule_100)
TestRules == {0, 1, 16, 30, 100}

\* the automaton stepped and read: update() and to_list() calls interleaved
NextView ==
    \/ /\ pc = "unbuilt"
       /\ \E r \in TestRules, init \in InitialInputs, pb \in BOOLEAN : New(r, init, pb)
    \/ \E oc \in Builds(fields) : Update(oc)
    \/ ToList

SpecView == Init /\ [][NextView]_vars

(***************************************************************************)
(* Vocabulary of the properties: the lattice by cell index.                *)
(***************************************************************************)
\* the cell of index i of lattice L (index 0 is the last vector position)
Cell(L, i) == L[Width - i]

\* a lattice: exactly 128 cells, each 0 or 1
IsLattice(L) == Len(L) = Width /\ \A p \in 1..Width : L[p] \in {0, 1}

\* the indices whose cell is 1
SetCells(L) == { i \in 0..(Width - 1) : Cell(L, i) = 1 }

\* to_list() has been called and not followed by an update()
JustListed == Len(listed_at) >= 1 /\ listed_at[Len(listed_at)] = gen

\* bit p of rule r
RuleBit(r, p) == (r \div (2 ^ p)) % 2

\* left neighbour of index i: index i + 1; beyond index 127, cell 0 or 0
LeftOf(L, pb, i) ==
    IF i < Width - 1 THEN Cell(L, i + 1) ELSE IF pb THEN Cell(L, 0) ELSE 0

\* right neighbour of index i: index i - 1; beyond index 0, cell 127 or 0
RightOf(L, pb, i) ==
    IF i > 0 THEN Cell(L, i - 1) ELSE IF pb THEN Cell(L, Width - 1) ELSE 0

\* the neighbourhood of index i in lattice L
Neighborhood(L, pb, i) == 4 * LeftOf(L, pb, i) + 2 * Cell(L, i) + RightOf(L, pb, i)

(***************************************************************************)
(* C1..C10                                                                 *)
(***************************************************************************)
\* C1: after an update() of a lattice L (prev), every cell i of the new
\* generation is bit Neighborhood(L, i) of the rule, the neighbourhood being
\* taken in L alone, for every rule and both boundary modes.
C1_Simultaneity ==
    (gen >= 1 /\ IsLattice(prev)) =>
        \A i \in 0..(Width - 1) :
            Cell(fields, i) = RuleBit(rule, Neighborhood(prev, periodic_boundary, i))

\* C1 witness: an update after which some cell i - 1 has changed and the rule
\* output of cell i depends on its right neighbour, so that a scan reading the
\* new value of cell i - 1 would have given cell i another value.
C1_Witness ==
    /\ gen >= 1
    /\ IsLattice(prev)
    /\ \E i \in 1..(Width - 1) :
          LET n == Neighborhood(prev, periodic_boundary, i)
              m == IF n % 2 = 1 THEN n - 1 ELSE n + 1
          IN  /\ Cell(fields, i - 1) # Cell(prev, i - 1)
              /\ RuleBit(rule, n) # RuleBit(rule, m)

\* C2 (as claimed): an automaton is constructed only from a sequence of
\* exactly 128 cells, each 0 or 1.
C2_ConstructionValidates ==
    pc # "unbuilt" => IsLattice(initial)

\* C3 (as claimed): no update() of a constructed automaton fails.
C3_StepTotal ==
    pc # "panicked"

\* C4 (as claimed): rule 16, periodic, only index 0 set: one update() leaves
\* exactly index 4 set.
C4_Original ==
    (rule = 16 /\ periodic_boundary /\ IsLattice(initial)
       /\ SetCells(initial) = {0} /\ gen = 1)
    => SetCells(fields) = {4}

\* C4 (amended): rule 16, periodic, only index 0 set: one update() leaves
\* exactly index 127 set, the cell whose left neighbour wraps to index 0.
C4_PeriodicExample ==
    (rule = 16 /\ periodic_boundary /\ IsLattice(initial)
       /\ SetCells(initial) = {0} /\ gen = 1)
    => (IsLattice(fields) /\ SetCells(fields) = {Width - 1})

\* C4 witness: the first generation of that run.
C4_Witness ==
    /\ rule = 16 /\ periodic_boundary /\ gen = 1 /\ pc = "ready"
    /\ IsLattice(initial) /\ SetCells(initial) = {0}
    /\ SetCells(prev) = {0}

\* C5: rule 30, fixed boundary, from 0b101 (indices 0 and 2): the generations
\* 1, 2, 3 are 0b1101, 0b11001, 0b110111, all other cells 0.
C5_Rule30Trace ==
    (rule = 30 /\ ~periodic_boundary /\ IsLattice(initial)
       /\ SetCells(initial) = {0, 2})
    => /\ IsLattice(fields)
       /\ gen = 1 => SetCells(fields) = {0, 2, 3}
       /\ gen = 2 => SetCells(fields) = {0, 3, 4}
       /\ gen = 3 => SetCells(fields) = {0, 1, 2, 4, 5}

\* C5 witness: the third generation of that run.
C5_Witness ==
    /\ rule = 30 /\ ~periodic_boundary /\ gen = 3
    /\ IsLattice(initial) /\ SetCells(initial) = {0, 2}
    /\ SetCells(prev) = {0, 3, 4}

\* C6: rule 100, fixed boundary: 0b100 is unchanged by one update(); from
\* 0b101 the generations are 0b111, then 0b001 from the second one on.
C6_Rule100Trace ==
    (rule = 100 /\ ~periodic_boundary /\ IsLattice(initial))
    => /\ (SetCells(initial) = {2} /\ gen = 1) => SetCells(fields) = {2}
       /\ (SetCells(initial) = {0, 2} /\ gen = 1) => SetCells(fields) = {0, 1, 2}
       /\ (SetCells(initial) = {0, 2} /\ gen >= 2) => SetCells(fields) = {0}

\* C6 witness: the fixpoint 0b001 stepped once more.
C6_Witness ==
    /\ rule = 100 /\ ~periodic_boundary /\ gen >= 3
    /\ IsLattice(initial) /\ SetCells(initial) = {0, 2}
    /\ SetCells(prev) = {0}

\* C7: with rule 0, from any lattice and in both modes, every generation
\* after the first update() is the all-zero lattice.
C7_Rule0Absorbing ==
    (rule = 0 /\ IsLattice(initial) /\ gen >= 1)
    => (IsLattice(fields) /\ SetCells(fields) = {})

\* C7 witness: a lattice with set cells absorbed, then stepped again.
C7_Witness ==
    /\ rule = 0 /\ gen >= 2
    /\ IsLattice(initial) /\ SetCells(initial) # {}
    /\ SetCells(prev) = {}

\* C8: with rule 1, from the all-zero lattice and in both modes, the odd
\* generations are all-one (edge cells included) and the even ones all-zero.
C8_Rule1Oscillation ==
    (rule = 1 /\ IsLattice(initial) /\ SetCells(initial) = {})
    => /\ IsLattice(fields)
       /\ gen % 2 = 1 => SetCells(fields) = 0..(Width - 1)
       /\ gen % 2 = 0 => SetCells(fields) = {}

\* C8 witness: back to all-zero after two updates, in periodic mode.
C8_Witness ==
    /\ rule = 1 /\ periodic_boundary /\ gen = 2
    /\ IsLattice(initial) /\ SetCells(initial) = {}
    /\ SetCells(prev) = 0..(Width - 1)

C10_PeriodicBoundary ==
    (pc = "ready" /\ periodic_boundary /\ IsLattice(fields))
    => /\ detect_pattern(fields, periodic_boundary, 0)
              = 4 * Cell(fields, 1) + 2 * Cell(fields, 0) + Cell(fields, Width - 1)
       /\ detect_pattern(fields, periodic_boundary, Width - 1)
              = 4 * Cell(fields, 0) + 2 * Cell(fields, Width - 1)
                + Cell(fields, Width - 2)

\* C10 witness: a periodic lattice, after an update, whose edge cells differ
\* (each edge neighbourhood reads the cell of the other end).
C10_Witness ==
    /\ pc = "ready" /\ periodic_boundary /\ gen >= 1 /\ IsLattice(fields)
    /\ Cell(fields, 0) = 1 /\ Cell(fields, Width - 1) = 0
    /\ Cell(fields, 1) = 0 /\ Cell(fields, Width - 2) = 1

(***************************************************************************)
(* C11..C19                                                                *)
(***************************************************************************)
\* limb k of the packed value of sequence L: bit i of the value is the cell
\* of index i, limb k holding the bits 16 (k - 1) .. 16 (k - 1) + 15
RECURSIVE LimbOf(_, _, _)
LimbOf(L, k, j) ==
    IF j = LimbBits THEN 0
    ELSE Cell(L, LimbBits * (k - 1) + j) * (2 ^ j) + LimbOf(L, k, j + 1)

\* the packed value of a sequence of 128 bits
Pack(L) == [k \in 1..NumLimbs |-> LimbOf(L, k, 0)]

\* C11: the sequence to_list() returns for a lattice built from the packed
\* value V has bit 127 of V at position 0 and bit 0 of V at position 127 and
\* re-packs to V; in every generation the sequence returned is the lattice
\* most significant cell first (position p = cell 127 - p) and packing it and
\* unpacking it again gives it back.
C11_RoundTrip ==
    (JustListed /\ IsLattice(initial))
    => /\ IsLattice(listed)
       /\ \A p \in 0..(Width - 1) : listed[p + 1] = Cell(fields, Width - 1 - p)
       /\ to_vec(Pack(listed)) = listed
       /\ gen = 0 =>
            \A V \in PackedInputs :
                initial = to_vec(V) =>
                    /\ Pack(listed) = V
                    /\ listed[1] = V[NumLimbs] \div (2 ^ (LimbBits - 1))
                    /\ listed[Width] = V[1] % 2

\* C11 witness: to_list() called after updates on a lattice that is not its
\* own mirror image (its two edge cells differ).
C11_Witness ==
    /\ JustListed /\ gen >= 2 /\ IsLattice(initial)
    /\ listed[1] = 0 /\ listed[Width] = 1
    /\ \E V \in PackedInputs : initial = to_vec(V) /\ V[1] = 5

\* the lattice after g updates of lattice L when nothing else is called
RECURSIVE Generation(_, _, _, _)
Generation(L, r, pb, g) ==
    IF g = 0 THEN L
    ELSE CHOOSE n \in {new_fields(Generation(L, r, pb, g - 1), r, pb, TRUE)} : TRUE

\* C12: a to_list() call leaves the lattice, the rule and the boundary mode
\* as they are and returns the lattice; a further call in the same generation
\* returns the same sequence; with to_list() calls interleaved, every
\* generation is the one the updates alone produce.
C12_ToListPure ==
    /\ [][ Len(listed_at') = Len(listed_at) + 1 =>
             /\ fields' = fields
             /\ rule' = rule
             /\ periodic_boundary' = periodic_boundary
             /\ listed' = fields
             /\ JustListed => listed' = listed ]_vars
    /\ [](IsLattice(initial) =>
             fields = Generation(initial, rule, periodic_boundary, gen))

\* C12 witness: two to_list() calls in generation 1, then an update().
C12_Witness ==
    /\ listed_at = <<1, 1>> /\ gen = 2 /\ IsLattice(initial)
    /\ rule = 30 /\ listed = prev /\ listed # fields

\* C13: a step that is an update() keeps the rule and the boundary mode,
\* advances the generation by exactly one and replaces the lattice by a
\* complete generation: 128 cells, each the rule bit of its neighbourhood in
\* the lattice replaced; a failed update() replaces nothing; and the rule and
\* the boundary mode never change once the automaton is constructed.
C13_UpdateFrame ==
    [][ pc = "ready" =>
          /\ rule' = rule
          /\ periodic_boundary' = periodic_boundary
          /\ fields' # fields => gen' = gen + 1
          /\ gen' # gen =>
                /\ gen' = gen + 1
                /\ Len(fields') = Width
                /\ prev' = fields
                /\ IsLattice(fields) =>
                      \A i \in 0..(Width - 1) :
                          Cell(fields', i)
                            = RuleBit(rule, Neighborhood(fields, periodic_boundary, i))
          /\ pc' = "panicked" => (fields' = fields /\ gen' = gen) ]_vars

\* C13 witness: a third update() that changed the lattice, the rule being one
\* whose bits differ (30) and the mode periodic.
C13_Witness ==
    /\ gen = 3 /\ IsLattice(initial) /\ rule = 30 /\ periodic_boundary
    /\ fields # prev

\* C14: for every index i in 1..126 and in both boundary modes the
\* neighbourhood of i is (L[i+1] << 2) | (L[i] << 1) | L[i-1].
C14_InteriorNeighborhood ==
    (pc = "ready" /\ IsLattice(fields))
    => \A i \in 1..(Width - 2) : \A pb \in BOOLEAN :
           detect_pattern(fields, pb, i)
             = 4 * Cell(fields, i + 1) + 2 * Cell(fields, i) + Cell(fields, i - 1)

\* C14 witness: a lattice, after an update, with an interior cell whose two
\* neighbours differ and with both edge cells set.
C14_Witness ==
    /\ pc = "ready" /\ gen >= 1 /\ IsLattice(fields)
    /\ Cell(fields, 0) = 1 /\ Cell(fields, Width - 1) = 1
    /\ \E i \in 1..(Width - 2) : Cell(fields, i + 1) # Cell(fields, i - 1)

\* C15: rule 16, periodic: an update() of a lattice whose only set cell is
\* index k gives the lattice whose only set cell is index (k - 1) mod 128.
C15_Rule16Shift ==
    (rule = 16 /\ periodic_boundary /\ gen >= 1 /\ IsLattice(prev))
    => \A k \in 0..(Width - 1) :
           SetCells(prev) = {k} =>
               (IsLattice(fields) /\ SetCells(fields) = {(k + Width - 1) % Width})

\* C15 witness: the set cell has walked from index 2 down to index 0 and
\* wraps to index 127 in the third update().
C15_Witness ==
    /\ rule = 16 /\ periodic_boundary /\ gen = 3
    /\ IsLattice(initial) /\ SetCells(initial) = {2}
    /\ SetCells(prev) = {0}

\* C16: in every build apply_rule(pattern, rule) is 0 or 1 for the patterns
\* 0..7 and these eight values are the binary digits of the rule
\* (rule = sum of apply_rule(p, rule) * 2^p).
C16_RuleTable ==
    pc = "ready" =>
        \A oc \in BOOLEAN :
            /\ \A p \in 0..7 : apply_rule(p, rule, oc) \in {0, 1}
            /\ rule = apply_rule(0, rule, oc)       + 2 * apply_rule(1, rule, oc)
                    + 4 * apply_rule(2, rule, oc)   + 8 * apply_rule(3, rule, oc)
                    + 16 * apply_rule(4, rule, oc)  + 32 * apply_rule(5, rule, oc)
                    + 64 * apply_rule(6, rule, oc)  + 128 * apply_rule(7, rule, oc)

\* C16 witness: rule 30 applied by an update() that produced both outputs.
C16_Witness ==
    /\ pc = "ready" /\ rule = 30 /\ gen >= 1 /\ IsLattice(prev)
    /\ \E i \in 0..(Width - 1) : Cell(fields, i) = 1
    /\ \E i \in 0..(Width - 1) : Cell(fields, i) = 0

\* C17: from a lattice (128 cells, each 0 or 1), whatever the rule and the
\* mode, the lattice has 128 cells, each 0 or 1, after every update().
C17_LatticeShape ==
    IsLattice(initial) => (pc = "ready" /\ IsLattice(fields))

\* C17 witness: the last generation explored, with rule 110, not all-zero.
C17_Witness ==
    /\ IsLattice(initial) /\ gen >= 3 /\ rule = 110
    /\ SetCells(fields) # {}

\* C18: an update() of lattice L in the other boundary mode gives the same
\* cells at the indices 1..126, and the same lattice when L[0] = L[127] = 0.
C18_BoundaryOnlyEdges ==
    [][ (gen' = gen + 1 /\ IsLattice(fields))
        => \A other \in {new_fields(fields, rule, ~periodic_boundary, TRUE)} :
              /\ \A i \in 1..(Width - 2) : Cell(other, i) = Cell(fields', i)
              /\ (Cell(fields, 0) = 0 /\ Cell(fields, Width - 1) = 0)
                     => other = fields' ]_vars

\* C18 witness: an update() of a lattice with both edge cells set, under a
\* rule for which the wrapped neighbour changes the new cell of index 0.
C18_Witness ==
    /\ gen >= 1 /\ IsLattice(prev)
    /\ Cell(prev, 0) = 1 /\ Cell(prev, Width - 1) = 1
    /\ RuleBit(rule, Neighborhood(prev, TRUE, 0))
         # RuleBit(rule, Neighborhood(prev, FALSE, 0))

\* lattice L rotated by k: the cell of index i moves to index (i + k) mod 128
Rotate(L, k) == [p \in 1..Width |-> L[((p - 1 + k) % Width) + 1]]

\* C19: periodic mode: an update() of lattice L rotated by k gives the
\* update() of L rotated by k, for the rotations k = 1..MaxShift.
C19_TranslationEquivariance ==
    [][ (gen' = gen + 1 /\ periodic_boundary /\ IsLattice(fields))
        => \A k \in 1..MaxShift :
               new_fields(Rotate(fields, k), rule, TRUE, TRUE)
                 = Rotate(fields', k) ]_vars

\* C19 witness: a periodic update() of a lattice with a set cell at index 127,
\* which every rotation carries across the wrap, under rule 30.
C19_Witness ==
    /\ gen >= 1 /\ periodic_boundary /\ IsLattice(prev) /\ rule = 30
    /\ Cell(prev, Width - 1) = 1 /\ Cell(prev, 0) = 0
    /\ fields # prev

====
